---- MODULE Spec2Model ----
(***************************************************************************)
(* Model of src/src/address-monitor.js: the address-monitor polling        *)
(* engine.  startMonitoring / stopMonitoring are async functions and the   *)
(* polling cycle is an async setInterval callback; every `await` is a      *)
(* point where the JavaScript event loop may run another callback, so each *)
(* handler is cut into one action per synchronous section.                 *)
(*                                                                         *)
(* Spec follows one session with overlapping cycles and racing stop calls, *)
(* FairSpec the same session when every awaited call settles, MultiSpec    *)
(* two sessions side by side, SeqSpec one session whose cycles run one     *)
(* after the other over the whole chain.                                   *)
(*                                                                         *)
(* The module also models sendMultipleTransactions of multi-sender.js      *)
(* (src/unnamed/part_000): SendSpec follows one call of it.                *)
(***************************************************************************)
EXTENDS Integers, Sequences, FiniteSets, TLC

(* ------------------------------ bounds -------------------------------- *)

\* Timer firings of one session's setInterval.
MaxFires == 2
\* stopMonitoring calls on one id awaiting their final notification at once.
MaxStops == 2

\* processedTxs.size > 1000 (line 153), scaled to the model's handful of hashes.
DedupCap == 2

\* The session ids of the model; crypto.randomUUID() issues them in this order.
Ids == {1, 2}
\* The ids startMonitoring gets to issue under Spec and FairSpec: one session
\* is followed in depth, the other id stays unknown to the registry.
Issuable == {1}
\* Polling cycles of one session that can be in flight at once.
Slots == {1, 2}

(* ------------------------- addresses and values ------------------------ *)

NoAddr == "null"

\* ethers.utils.isAddress: all-lower-case or correctly checksummed hex forms.
isAddress(a) == a \in {"0xaa", "0xAA", "0xbb", "0xBB"}

\* String.prototype.toLowerCase on the address forms of the model.
toLowerCase(a) ==
    CASE a = "0xAA" -> "0xaa"
      [] a = "0xaA" -> "0xaa"
      [] a = "0xBB" -> "0xbb"
      [] a = "0xCC" -> "0xcc"
      [] OTHER -> a

RECURSIVE NormalizeFrom(_, _)
\* addresses.map(isAddress ? toLowerCase : null).filter(Boolean) into a Set.
NormalizeFrom(addresses, n) ==
    IF n > Len(addresses) THEN {}
    ELSE (IF isAddress(addresses[n]) THEN {toLowerCase(addresses[n])} ELSE {})
         \cup NormalizeFrom(addresses, n + 1)

Normalize(addresses) == NormalizeFrom(addresses, 1)

\* parseFloat(formatEther(value)): the exact amount rounded to the nearest
\* floating-point number (ties to even).  Amounts are small integers and the
\* float has a two-bit significand: 0 1 2 3 4 6 8 12 16 are representable.
Ulp(v) == IF v < 4 THEN 1 ELSE IF v < 8 THEN 2 ELSE 4

parseFloatEther(v) ==
    LET u  == Ulp(v)
        lo == (v \div u) * u
        hi == lo + u
    IN  IF v = lo THEN v
        ELSE IF 2 * (v - lo) < u THEN lo
        ELSE IF 2 * (v - lo) > u THEN hi
        ELSE IF (lo \div u) % 2 = 0 THEN lo ELSE hi

(* ------------------------------ the chain ------------------------------ *)

Tx(h, f, t, v) == [hash |-> h, from |-> f, to |-> t, value |-> v]

\* The blocks of the chain, from height 1.  h1 is reported again in block 2,
\* h3 moves 7 between two watched addresses, h4 creates a contract, h5 pays
\* a watched address.
Chain ==
    << << Tx("h1", "0xCC", "0xAA", 8), Tx("h2", "0xAA", "0xCC", 3) >>,
       << Tx("h1", "0xCC", "0xAA", 8), Tx("h3", "0xAA", "0xBB", 7),
          Tx("h4", "0xCC", NoAddr, 0) >>,
       << Tx("h5", "0xCC", "0xAA", 8) >> >>

\* Highest block the chain produces in the model.
MaxHeight == Len(Chain)

\* The heads from which the chain grows under Spec, FairSpec and MultiSpec,
\* which stop at block 2; SeqSpec goes on to MaxHeight.
ShortHeads == {0, 1}

\* What provider.getBlockWithTransactions(h) returns when the block is
\* available.
BlockAt(h) == Chain[h]

\* The calls of startMonitoring: addresses, minValue, saveTransactions,
\* includeOutgoing.
StartCalls ==
    { << << >>, 0, TRUE, FALSE >>,
      << << "0xAA" >>, 0, TRUE, FALSE >>,
      << << "0xAA" >>, 0, FALSE, TRUE >>,
      << << "0xAA", "0xbb" >>, 8, FALSE, TRUE >>,
      << << "0xAA", "0xbb" >>, 0, TRUE, FALSE >>,
      << << "0xaA" >>, 0, FALSE, FALSE >> }

VARIABLES
    chainHead,          \* current height of the chain
    crashed,            \* the Node process died on an unhandled 'error' event
    lastError,          \* message of the last error thrown to a caller
    nextId,             \* ids issued so far + 1 (crypto.randomUUID is fresh)
    startPc,            \* per id: where its startMonitoring call is
    watchAddresses,     \* per id: the Set built at line 73
    opts,               \* per id: minValue, saveTransactions, includeOutgoing
    lastProcessedBlock, \* per id: the closure variable of line 87
    processedTxs,       \* per id: the Set of line 86
    logStream,          \* per id: "null", "open", "ended" or "errored"
    pollInterval,       \* per id: "unset", "active" or "cleared"
    activeSessions,     \* the ids that are keys of activeSessions
    ticks,              \* per id and slot: a polling cycle in flight
    fired,              \* per id: timer firings so far
    stops,              \* per id: stopMonitoring calls awaiting line 179
    stopReturned,       \* per id: stopMonitoring calls that returned true
    emitted,            \* per id: the matches fanned out, in order
    startNotes,         \* per id: 'Monitoring Started' notification attempts
    stopNotes,          \* per id: 'Monitoring Stopped' notification attempts
    initBlock,          \* per id: the height line 87 read
    returned,           \* the ids startMonitoring returned, in order
    scanned,            \* per id: heights whose block loop body completed
    gaps,               \* per id: heights a completed cycle found unavailable
    suppressed,         \* per id: hashes line 113 skipped
    due,                \* per id: incoming matches the filter owed a fanout
    windowReset,        \* per id: processedTxs.clear() has run
    \* sendMultipleTransactions (multi-sender.js), one call:
    sendPc,             \* the place of the call
    recipientAddresses, \* the list it was given
    sendOpts,           \* its opts: concurrentTx, dryRun, nonce (0: none)
    nonce,              \* the starting nonce
    sendIndex,          \* the loop index i, from 0
    results,            \* the results array
    promises,           \* the queued processTx promises, by results index
    txPc,               \* per started processTx: the call it awaits, or done
    sent                \* the nonces handed to wallet.sendTransaction, in order

\* The state of sendMultipleTransactions.
senderVars == << sendPc, recipientAddresses, sendOpts, nonce, sendIndex, results,
                 promises, txPc, sent >>

\* The state of the address monitor.
monitorVars ==
    << chainHead, crashed, lastError, nextId, startPc, watchAddresses,
       opts, lastProcessedBlock, processedTxs, logStream, pollInterval,
       activeSessions, ticks, fired, stops, stopReturned, emitted,
       startNotes, stopNotes, initBlock, returned, scanned, gaps,
       suppressed, due, windowReset >>

vars == << senderVars, monitorVars >>

\* Everything of the sessions except the error reported to the caller.
sessionVars == << nextId, startPc, watchAddresses, opts, lastProcessedBlock,
                  processedTxs, logStream, pollInterval, activeSessions, ticks,
                  fired, stops, stopReturned, emitted, startNotes, stopNotes,
                  initBlock, returned, scanned, gaps, suppressed, due,
                  windowReset >>

\* A slot with no cycle in it.  A cycle carries its place (pc), the height
\* line 105 read, lastProcessedBlock as it was then (base), the block and
\* transaction it is at (i, j), and the << block, index >> of each fanout it
\* has made so far, in order (log), and the heights it found unavailable
\* (nulls).
IdleTick ==
    [pc |-> "idle", currentBlock |-> 0, base |-> 0, i |-> 0, j |-> 0,
     log |-> << >>, nulls |-> {}, undelivered |-> FALSE]

DefaultOpts == [minValue |-> 0, saveTransactions |-> TRUE, includeOutgoing |-> FALSE]

Init ==
    /\ chainHead = 0
    /\ crashed = FALSE
    /\ lastError = "none"
    /\ nextId = 1
    /\ startPc = [id \in Ids |-> "none"]
    /\ watchAddresses = [id \in Ids |-> {}]
    /\ opts = [id \in Ids |-> DefaultOpts]
    /\ lastProcessedBlock = [id \in Ids |-> 0]
    /\ processedTxs = [id \in Ids |-> {}]
    /\ logStream = [id \in Ids |-> "null"]
    /\ pollInterval = [id \in Ids |-> "unset"]
    /\ activeSessions = {}
    /\ ticks = [id \in Ids |-> [k \in Slots |-> IdleTick]]
    /\ fired = [id \in Ids |-> 0]
    /\ stops = [id \in Ids |-> 0]
    /\ stopReturned = [id \in Ids |-> 0]
    /\ emitted = [id \in Ids |-> << >>]
    /\ startNotes = [id \in Ids |-> 0]
    /\ stopNotes = [id \in Ids |-> 0]
    /\ initBlock = [id \in Ids |-> 0]
    /\ returned = << >>
    /\ scanned = [id \in Ids |-> {}]
    /\ gaps = [id \in Ids |-> {}]
    /\ suppressed = [id \in Ids |-> {}]
    /\ due = [id \in Ids |-> 0]
    /\ windowReset = [id \in Ids |-> FALSE]
    /\ sendPc = "idle"
    /\ recipientAddresses = << >>
    /\ sendOpts = [concurrentTx |-> 1, dryRun |-> FALSE, nonce |-> 0]
    /\ nonce = 0
    /\ sendIndex = 0
    /\ results = << >>
    /\ promises = {}
    /\ txPc = << >>
    /\ sent = << >>

(* --------------------------- the environment --------------------------- *)

\* The chain produces a block.
NewBlock ==
    /\ ~crashed
    /\ chainHead < MaxHeight
    /\ chainHead' = chainHead + 1
    /\ UNCHANGED << senderVars, crashed, lastError, sessionVars >>

\* The heights provider.getBlockNumber() may answer with: the head, or one
\* block behind it when the answering node lags.
ProviderHeights == { h \in 0..chainHead : h + 1 >= chainHead }

(* --------------------------- startMonitoring --------------------------- *)

\* Mutant: the id is not random, every call gets the same one.
randomUUIDRepeats(n) == 1

\* Line 72: the id crypto.randomUUID() hands to the n-th call that reaches
\* it.  A version 4 UUID carries 122 random bits; the model takes two calls
\* never to draw the same one.
randomUUID(n) == n

\* Lines 60-87: the synchronous head of startMonitoring, up to the await of
\* provider.getBlockNumber().
StartMonitoring(addresses, minValue, saveTransactions, includeOutgoing) ==
    /\ ~crashed
    /\ IF Len(addresses) = 0
       THEN /\ lastError' = "No addresses provided"
            /\ UNCHANGED << senderVars, chainHead, crashed, sessionVars >>
       ELSE /\ nextId \in Ids
            /\ nextId' = nextId + 1
            /\ startPc' = [startPc EXCEPT ![randomUUID(nextId)] = "getBlockNumber"]
            /\ watchAddresses' = [watchAddresses EXCEPT ![randomUUID(nextId)] =
                                    Normalize(addresses)]
            /\ opts' = [opts EXCEPT ![randomUUID(nextId)] =
                          [minValue |-> minValue,
                           saveTransactions |-> saveTransactions,
                           includeOutgoing |-> includeOutgoing]]
            /\ UNCHANGED << senderVars, chainHead, crashed, lastError, lastProcessedBlock,
                            processedTxs, logStream, pollInterval,
                            activeSessions,
                            ticks, fired, stops, stopReturned, emitted,
                            startNotes, stopNotes, initBlock, returned,
                            scanned, gaps,
                            suppressed, due, windowReset >>

\* Mutant: the session starts at the genesis block and scans the history.
InitialHeightGenesis(H) == 0

\* Line 87: let lastProcessedBlock = await provider.getBlockNumber().
InitialHeight(H) == H

\* Lines 87-101: getBlockNumber answered; the log stream is opened and the
\* start notification is sent and awaited.
StartHeightReturn(id, H) ==
    /\ ~crashed
    /\ startPc[id] = "getBlockNumber"
    /\ H \in ProviderHeights
    /\ lastProcessedBlock' = [lastProcessedBlock EXCEPT ![id] = InitialHeight(H)]
    /\ initBlock' = [initBlock EXCEPT ![id] = H]
    /\ logStream' = [logStream EXCEPT ![id] =
                        IF opts[id].saveTransactions THEN "open" ELSE "null"]
    /\ startNotes' = [startNotes EXCEPT ![id] = @ + 1]
    /\ startPc' = [startPc EXCEPT ![id] = "notify"]
    /\ UNCHANGED << senderVars, chainHead, crashed, lastError, nextId, watchAddresses, opts,
                    processedTxs, pollInterval, activeSessions, ticks, fired,
                    stops, stopReturned, emitted, stopNotes, returned,
                    scanned, gaps, suppressed, due, windowReset >>

\* Mutant: the log stream is opened and the start notification sent before
\* the height is fetched, so a rejected fetch leaves both behind.
StartHeightThrowAfterEffects(id) ==
    /\ ~crashed
    /\ startPc[id] = "getBlockNumber"
    /\ startPc' = [startPc EXCEPT ![id] = "failed"]
    /\ lastError' = "provider error"
    /\ logStream' = [logStream EXCEPT ![id] =
                        IF opts[id].saveTransactions THEN "open" ELSE "null"]
    /\ startNotes' = [startNotes EXCEPT ![id] = @ + 1]
    /\ UNCHANGED << senderVars, chainHead, crashed, nextId, watchAddresses, opts,
                    lastProcessedBlock, processedTxs, pollInterval,
                    activeSessions, ticks, fired, stops, stopReturned, emitted,
                    stopNotes, initBlock, returned, scanned, gaps, suppressed,
                    due,
                    windowReset >>

\* Line 87: getBlockNumber rejected; startMonitoring rejects with its error.
StartHeightThrow(id) ==
    /\ ~crashed
    /\ startPc[id] = "getBlockNumber"
    /\ startPc' = [startPc EXCEPT ![id] = "failed"]
    /\ lastError' = "provider error"
    /\ UNCHANGED << senderVars, chainHead, crashed, nextId, watchAddresses, opts,
                    lastProcessedBlock, processedTxs, logStream, pollInterval,
                    activeSessions, ticks, fired, stops, stopReturned, emitted,
                    startNotes, stopNotes, initBlock, returned, scanned, gaps,
                    suppressed, due,
                    windowReset >>

\* Mutant: the timer is scheduled but the session is not put in the registry.
RegisterNothing(id, registry) == registry

\* Lines 159-167: activeSessions[sessionId] = { ... }.
Register(id, registry) == registry \cup {id}

\* Lines 103-169: sendTelegramNotification resolved (it never rejects); the
\* timer is scheduled and the session registered in the same synchronous step.
StartNotifyReturn(id) ==
    /\ ~crashed
    /\ startPc[id] = "notify"
    /\ pollInterval' = [pollInterval EXCEPT ![id] = "active"]
    /\ activeSessions' = Register(id, activeSessions)
    /\ startPc' = [startPc EXCEPT ![id] = "done"]
    /\ returned' = Append(returned, id)
    /\ UNCHANGED << senderVars, chainHead, crashed, lastError, nextId, watchAddresses, opts,
                    lastProcessedBlock, processedTxs, logStream, ticks, fired,
                    stops, stopReturned, emitted, startNotes, stopNotes,
                    initBlock, scanned, gaps, suppressed, due, windowReset >>

(* ------------------------- the polling cycle --------------------------- *)

\* Line 116: isIncoming = tx.to && watchAddresses.has(tx.to.toLowerCase()).
isIncoming(tx, watch) == tx.to # NoAddr /\ toLowerCase(tx.to) \in watch

\* Line 117: isOutgoing = tx.from && watchAddresses.has(tx.from.toLowerCase()).
isOutgoing(tx, watch) == tx.from # NoAddr /\ toLowerCase(tx.from) \in watch

\* Line 119, negated: the transaction is not discarded by direction.
Selected(incoming, outgoing, includeOutgoing) ==
    incoming \/ (outgoing /\ includeOutgoing)

\* Mutant: the value filter written with <= discards an amount equal to minValue.
PassesValueStrict(value, minValue) == ~(parseFloatEther(value) <= minValue)

\* Lines 121-122, negated: the transaction is not discarded by value.
PassesValue(value, minValue) == ~(parseFloatEther(value) < minValue)

\* Mutant: the label is chosen from the `to` end only.
TxTypeByRecipient(incoming, outgoing) ==
    IF incoming THEN "Incoming" ELSE "Outgoing"

\* Lines 124-128: the direction label.
TxType(incoming, outgoing) ==
    IF incoming /\ outgoing THEN "Internal Tx"
    ELSE IF incoming THEN "Incoming" ELSE "Outgoing"

\* Mutant: the dedup-window check is missing.
AlreadyProcessedNever(hash, seen) == FALSE

\* Line 113: the dedup-window check.
AlreadyProcessed(hash, seen) == hash \in seen

\* Line 106: no new block, the cycle returns at once.
SkipTick(currentBlock, last) == currentBlock <= last

\* Mutant: the range is walked from the newest block down.
NextHeightDescending(i, base, currentBlock) ==
    IF i = base THEN currentBlock
    ELSE IF i - 1 > base THEN i - 1 ELSE 0

\* Line 108: for (let i = lastProcessedBlock + 1; i <= currentBlock; i++).
\* The height the loop fetches after height i of the range (base,
\* currentBlock], i = base standing for the loop's start; 0 when the loop is
\* over.
NextHeight(i, base, currentBlock) ==
    IF i + 1 <= currentBlock THEN i + 1 ELSE 0

\* Mutant: a completed cycle stores one height more than it scanned.
HeightAfterTickPlusOne(currentBlock) == currentBlock + 1

\* Line 152: the height a completed cycle stores.
HeightAfterTick(currentBlock) == currentBlock

\* Line 153: the dedup window after a completed cycle.
WindowAfterTick(seen) == IF Cardinality(seen) > DedupCap THEN {} ELSE seen

\* The transaction is one a session owes a fanout: `to` is watched and the
\* exact amount reaches minValue.
OwedFanout(tx, id) ==
    /\ tx.to # NoAddr
    /\ toLowerCase(tx.to) \in watchAddresses[id]
    /\ tx.value >= opts[id].minValue

RECURSIVE ScanTxs(_, _, _, _)
\* Lines 112-122: the synchronous run of the transaction loop from index j
\* to the first transaction that reaches the fanout (hit), or to the end of
\* the block (hit = 0).  skipped and owed record what the run passed.
ScanTxs(txs, j, seen, id) ==
    IF j > Len(txs) THEN [seen |-> seen, hit |-> 0, skipped |-> {}, owed |-> 0]
    ELSE LET tx == txs[j] IN
         IF AlreadyProcessed(tx.hash, seen)
         THEN LET r == ScanTxs(txs, j + 1, seen, id)
              IN  [r EXCEPT !.skipped = @ \cup {tx.hash}]
         ELSE LET seen2 == seen \cup {tx.hash}
                  o == IF OwedFanout(tx, id) THEN 1 ELSE 0
              IN  IF /\ Selected(isIncoming(tx, watchAddresses[id]),
                                 isOutgoing(tx, watchAddresses[id]),
                                 opts[id].includeOutgoing)
                     /\ PassesValue(tx.value, opts[id].minValue)
                  THEN [seen |-> seen2, hit |-> j, skipped |-> {}, owed |-> o]
                  ELSE LET r == ScanTxs(txs, j + 1, seen2, id)
                       IN  [r EXCEPT !.owed = @ + o]

\* Lines 132-142: what logStream.write does.  A write to a stream that
\* stopMonitoring has ended is dropped when the stream is already destroyed,
\* and otherwise emits an 'error' event nobody listens to, which ends the
\* process.
WriteOutcomes(id) ==
    CASE logStream[id] = "null" -> {"none"}
      [] logStream[id] = "open" -> {"written"}
      [] OTHER -> {"dropped", "crash"}

\* Mutant: the Set is created once at module level and every session's
\* callback reads and writes the same one.
SharedWindow(id, seen) == [x \in Ids |-> seen]

\* Line 86: processedTxs is a const of the startMonitoring call, so each
\* session's callback writes the Set of its own closure.
OwnWindow(id, seen) == [processedTxs EXCEPT ![id] = seen]

\* Lines 124-148: the record of one fanout.  The fields from, to and wei
\* are the transaction's own (wei the exact amount), index is its place in
\* the block t.i, value is the number line 121 computed, logged/owed/active
\* say what happened at the fanout.
Record(tx, t, j, id, outcome) ==
    [hash |-> tx.hash,
     from |-> tx.from,
     to |-> tx.to,
     wei |-> tx.value,
     blockNumber |-> t.i,
     index |-> j,
     type |-> TxType(isIncoming(tx, watchAddresses[id]),
                     isOutgoing(tx, watchAddresses[id])),
     value |-> parseFloatEther(tx.value),
     logged |-> (outcome = "written"),
     owed |-> OwedFanout(tx, id),
     active |-> (pollInterval[id] = "active")]

\* Line 110: the heights cycle t has found empty or unavailable, the block
\* just answered (txs) included.
NullsAfter(t, txs) == IF Len(txs) = 0 THEN t.nulls \cup {t.i} ELSE t.nulls

\* Lines 108-153 from transaction j of block t.i on, up to the next await:
\* the fanout of a match (awaiting the notification), the fetch of the next
\* height, or the end of the cycle.
Continue(id, k, t, txs, j) ==
    LET r == ScanTxs(txs, j, processedTxs[id], id) IN
    /\ suppressed' = [suppressed EXCEPT ![id] = @ \cup r.skipped]
    /\ due' = [due EXCEPT ![id] =
                 @ + (IF pollInterval[id] = "active" THEN r.owed ELSE 0)]
    /\ IF r.hit > 0
       THEN /\ \E outcome \in WriteOutcomes(id) :
                 /\ crashed' = (outcome = "crash")
                 /\ emitted' = [emitted EXCEPT ![id] =
                       IF outcome = "crash" THEN @
                       ELSE Append(@, Record(txs[r.hit], t, r.hit, id, outcome))]
            /\ ticks' = [ticks EXCEPT ![id][k] =
                           [t EXCEPT !.pc = "notify", !.j = r.hit,
                                     !.log = Append(@, << t.i, r.hit >>)]]
            /\ processedTxs' = OwnWindow(id, r.seen)
            /\ UNCHANGED << lastProcessedBlock, scanned, gaps, windowReset >>
       ELSE /\ scanned' = [scanned EXCEPT ![id] = @ \cup {t.i}]
            /\ UNCHANGED << crashed, emitted >>
            /\ IF NextHeight(t.i, t.base, t.currentBlock) # 0
               THEN /\ ticks' = [ticks EXCEPT ![id][k] =
                                   [t EXCEPT !.pc = "getBlock", !.j = 0,
                                      !.i = NextHeight(t.i, t.base, t.currentBlock),
                                      !.nulls = NullsAfter(t, txs)]]
                    /\ gaps' = gaps
                    /\ processedTxs' = OwnWindow(id, r.seen)
                    /\ UNCHANGED << lastProcessedBlock, windowReset >>
               ELSE /\ ticks' = [ticks EXCEPT ![id][k] = IdleTick]
                    /\ gaps' = [gaps EXCEPT ![id] = @ \cup NullsAfter(t, txs)]
                    /\ lastProcessedBlock' = [lastProcessedBlock EXCEPT ![id] =
                                                HeightAfterTick(t.currentBlock)]
                    /\ processedTxs' = OwnWindow(id, WindowAfterTick(r.seen))
                    /\ windowReset' = [windowReset EXCEPT ![id] =
                                         @ \/ WindowAfterTick(r.seen) # r.seen]
    /\ UNCHANGED << senderVars, chainHead, lastError, nextId, startPc, watchAddresses, opts,
                    logStream, pollInterval, activeSessions, fired, stops,
                    stopReturned, startNotes, stopNotes, initBlock, returned >>

tickFrame == << senderVars, chainHead, crashed, lastError, nextId, startPc, watchAddresses,
                opts, lastProcessedBlock, processedTxs, logStream,
                pollInterval,
                activeSessions, stops, stopReturned, emitted, startNotes,
                stopNotes, initBlock, returned, scanned, gaps, suppressed, due,
                windowReset >>

\* Mutant: clearInterval is missing, a timer once set keeps firing.
TimerLiveForever(state) == state # "unset"

\* Line 103/176: a timer is live from setInterval to clearInterval.
TimerLive(state) == state = "active"

\* Line 103: the timer fires and the callback calls provider.getBlockNumber().
\* setInterval does not wait for an earlier callback's promise.
TickFire(id, k) ==
    /\ ~crashed
    /\ TimerLive(pollInterval[id])
    /\ fired[id] < MaxFires
    /\ ticks[id][k].pc = "idle"
    /\ \A m \in Slots : m < k => ticks[id][m].pc # "idle"
    /\ ticks' = [ticks EXCEPT ![id][k] = [IdleTick EXCEPT !.pc = "getBlockNumber"]]
    /\ fired' = [fired EXCEPT ![id] = @ + 1]
    /\ UNCHANGED tickFrame

\* Lines 105-109: getBlockNumber answered H; the cycle returns or fetches the
\* first height of its range.
GetBlockNumberReturn(id, k, H) ==
    /\ ~crashed
    /\ ticks[id][k].pc = "getBlockNumber"
    /\ H \in ProviderHeights
    /\ ticks' = [ticks EXCEPT ![id][k] =
                   IF SkipTick(H, lastProcessedBlock[id]) THEN IdleTick
                   ELSE [pc |-> "getBlock", currentBlock |-> H,
                         base |-> lastProcessedBlock[id],
                         i |-> NextHeight(lastProcessedBlock[id],
                                          lastProcessedBlock[id], H),
                         j |-> 0,
                         log |-> << >>, nulls |-> {},
                         undelivered |-> FALSE]]
    /\ UNCHANGED << fired, tickFrame >>

\* Lines 154-156: a provider call of the cycle rejected; the catch logs it.
ProviderThrow(id, k) ==
    /\ ~crashed
    /\ ticks[id][k].pc \in {"getBlockNumber", "getBlock"}
    /\ ticks' = [ticks EXCEPT ![id][k] = IdleTick]
    /\ UNCHANGED << fired, tickFrame >>

\* Lines 109-110: getBlockWithTransactions answered, with the block or with
\* null when the height is unavailable.
GetBlockReturn(id, k, available) ==
    /\ ~crashed
    /\ ticks[id][k].pc = "getBlock"
    /\ Continue(id, k, ticks[id][k],
                IF available THEN BlockAt(ticks[id][k].i) ELSE << >>, 1)

\* Mutant: a delivery failure is thrown to the caller.
DeliveryThrows(ok) == ~ok

\* Lines 20-44: sendTelegramNotification catches every failure of its one
\* axios.post and returns false; it never throws.
DeliveryRaises(ok) == FALSE

\* Lines 144-149: sendTelegramNotification resolved, with true (ok) or with
\* false; the result is not read and the transaction loop goes on.  A
\* rejection would be caught at line 154 and end the cycle.
NotifyReturn(id, k, ok) ==
    /\ ~crashed
    /\ ticks[id][k].pc = "notify"
    /\ IF DeliveryRaises(ok)
       THEN /\ ticks' = [ticks EXCEPT ![id][k] = IdleTick]
            /\ UNCHANGED << fired, tickFrame >>
       ELSE Continue(id, k,
                     [ticks[id][k] EXCEPT !.undelivered = @ \/ ~ok],
                     BlockAt(ticks[id][k].i), ticks[id][k].j + 1)

\* Lines 93, 132-142: a write the cycle handed to the log stream fails (disk
\* full, file removed, I/O error).  write() itself has returned; the stream
\* emits 'error' later, and as nothing in the module listens for it Node
\* raises it as an uncaught exception, which ends the process.
LogStreamError(id) ==
    /\ ~crashed
    /\ logStream[id] = "open"
    /\ \E a \in DOMAIN emitted[id] : emitted[id][a].logged
    /\ logStream' = [logStream EXCEPT ![id] = "errored"]
    /\ crashed' = TRUE
    /\ UNCHANGED << senderVars, chainHead, lastError, nextId, startPc, watchAddresses, opts,
                    lastProcessedBlock, processedTxs, pollInterval,
                    activeSessions, ticks, fired, stops, stopReturned, emitted,
                    startNotes, stopNotes, initBlock, returned, scanned, gaps,
                    suppressed, due, windowReset >>

(* ---------------------------- stopMonitoring --------------------------- *)

\* Mutant: the lookup's guard is missing, every id is taken as registered.
SessionFoundAlways(id, registry) == TRUE

\* Lines 173-174: the registry lookup.
SessionFound(id, registry) == id \in registry

\* Lines 172-183: the synchronous head of stopMonitoring, up to the await of
\* the final notification.
StopMonitoring(id) ==
    /\ ~crashed
    /\ IF ~SessionFound(id, activeSessions)
       THEN /\ lastError' = "Session not found"
            /\ UNCHANGED << senderVars, chainHead, crashed, sessionVars >>
       ELSE /\ stops[id] < MaxStops
            /\ pollInterval' = [pollInterval EXCEPT ![id] = "cleared"]
            /\ logStream' = [logStream EXCEPT ![id] =
                                IF @ = "null" THEN "null" ELSE "ended"]
            /\ stopNotes' = [stopNotes EXCEPT ![id] = @ + 1]
            /\ stops' = [stops EXCEPT ![id] = @ + 1]
            /\ UNCHANGED << senderVars, chainHead, crashed, lastError, nextId, startPc,
                            watchAddresses, opts, lastProcessedBlock,
                            processedTxs, activeSessions, ticks, fired,
                            stopReturned, emitted, startNotes, initBlock,
                            returned,
                            scanned, gaps, suppressed, due, windowReset >>

\* Lines 185-186: the final notification resolved; the session is deleted
\* and stopMonitoring returns true.
StopReturn(id) ==
    /\ ~crashed
    /\ stops[id] > 0
    /\ stops' = [stops EXCEPT ![id] = @ - 1]
    /\ activeSessions' = activeSessions \ {id}
    /\ stopReturned' = [stopReturned EXCEPT ![id] = @ + 1]
    /\ UNCHANGED << senderVars, chainHead, crashed, lastError, nextId, startPc,
                    watchAddresses, opts, lastProcessedBlock, processedTxs,
                    logStream, pollInterval, ticks, fired, emitted, startNotes,
                    stopNotes, initBlock, returned, scanned, gaps, suppressed,
                    due,
                    windowReset >>

(* ------------------------ sendMultipleTransactions --------------------- *)

\* multi-sender.js line 35: options.concurrentTx || 1.
ConcurrentTxOr1(n) == IF n = 0 THEN 1 ELSE n

\* Lines 107-109: opts.nonce when one was given (options.nonce || null takes
\* 0 for none), else the count wallet.getTransactionCount() answered.
StartingNonce(optNonce, count) == IF optNonce # 0 THEN optNonce ELSE count

\* Line 135: nonce: nonce + i, with i the index in recipientAddresses.
NonceOf(start, index) == start + index

\* Mutant: a batch is never awaited inside the loop.
BatchNeverFull(count, n, isLast) == FALSE

\* Line 193: promises.length >= opts.concurrentTx || i === length - 1.
BatchFull(count, n, isLast) == count >= n \/ isLast

\* The processTx calls that have started and not settled.
InFlightTxs == { p \in DOMAIN txPc : txPc[p] # "done" }

\* Lines 25-81: the call, up to the first await.  An empty list is refused
\* (lines 42-44); amount, key and API key are taken as given.
SendMultipleTransactions(recipients, n, dry, optNonce) ==
    /\ sendPc = "idle"
    /\ IF Len(recipients) = 0
       THEN /\ sendPc' = "threw"
            /\ UNCHANGED << recipientAddresses, sendOpts >>
       ELSE /\ sendPc' = "preamble"
            /\ recipientAddresses' = recipients
            /\ sendOpts' = [concurrentTx |-> ConcurrentTxOr1(n), dryRun |-> dry,
                            nonce |-> optNonce]
    /\ UNCHANGED << nonce, sendIndex, results, promises, txPc, sent,
                    monitorVars >>

\* Lines 81-114: balance, fee data and transaction count answered and the
\* balance suffices; results and promises are created and the loop begins.
PreambleReturn(count) ==
    /\ sendPc = "preamble"
    /\ nonce' = StartingNonce(sendOpts.nonce, count)
    /\ sendIndex' = 0
    /\ results' = << >>
    /\ promises' = {}
    /\ sendPc' = "loop"
    /\ UNCHANGED << recipientAddresses, sendOpts, txPc, sent, monitorVars >>

\* Lines 81-109: one of the three calls is rejected, or the balance is short
\* (line 86); the function rejects before any transaction is created.
PreambleThrow ==
    /\ sendPc = "preamble"
    /\ sendPc' = "threw"
    /\ UNCHANGED << recipientAddresses, sendOpts, nonce, sendIndex, results,
                    promises, txPc, sent, monitorVars >>

\* Lines 117-129: the recipient is not an address; a Failed entry is pushed
\* and the loop goes to the next index.
LoopInvalid ==
    /\ sendPc = "loop"
    /\ sendIndex < Len(recipientAddresses)
    /\ ~isAddress(recipientAddresses[sendIndex + 1])
    /\ results' = Append(results,
                         [recipient |-> recipientAddresses[sendIndex + 1],
                          status |-> "Failed",
                          error |-> "Invalid address format"])
    /\ sendIndex' = sendIndex + 1
    /\ UNCHANGED << recipientAddresses, sendOpts, nonce, promises, txPc, sent,
                    sendPc, monitorVars >>

\* Lines 117-200: the recipient is an address; txInfo is pushed as Pending
\* and processTx is called, which runs to its first await (estimateGas in a
\* dry run, after setting Simulated; wallet.sendTransaction otherwise).  With
\* concurrentTx > 1 the promise is queued and the batch awaited when full or
\* at the last index; else the one promise is awaited.
LoopStart ==
    LET r == Len(results) + 1
        nc == NonceOf(nonce, sendIndex)
    IN
    /\ sendPc = "loop"
    /\ sendIndex < Len(recipientAddresses)
    /\ isAddress(recipientAddresses[sendIndex + 1])
    /\ results' = Append(results,
                         [recipient |-> recipientAddresses[sendIndex + 1],
                          nonce |-> nc,
                          status |-> IF sendOpts.dryRun THEN "Simulated"
                                     ELSE "Pending"])
    /\ txPc' = [p \in DOMAIN txPc \cup {r} |->
                  IF p = r
                  THEN (IF sendOpts.dryRun THEN "estimateGas"
                        ELSE "sendTransaction")
                  ELSE txPc[p]]
    /\ sent' = IF sendOpts.dryRun THEN sent ELSE Append(sent, nc)
    /\ IF sendOpts.concurrentTx > 1
       THEN IF BatchFull(Cardinality(promises \cup {r}), sendOpts.concurrentTx,
                         sendIndex = Len(recipientAddresses) - 1)
            THEN /\ promises' = promises \cup {r}
                 /\ sendPc' = "awaitBatch"
                 /\ sendIndex' = sendIndex
            ELSE /\ promises' = promises \cup {r}
                 /\ sendPc' = "loop"
                 /\ sendIndex' = sendIndex + 1
       ELSE /\ sendPc' = "awaitTx"
            /\ UNCHANGED << promises, sendIndex >>
    /\ UNCHANGED << recipientAddresses, sendOpts, nonce, monitorVars >>

\* Line 168: wallet.sendTransaction answered with the transaction.
SendTransactionReturn(p) ==
    /\ p \in DOMAIN txPc
    /\ txPc[p] = "sendTransaction"
    /\ txPc' = [txPc EXCEPT ![p] = "wait"]
    /\ UNCHANGED << recipientAddresses, sendOpts, nonce, sendIndex, results,
                    promises, sent, sendPc, monitorVars >>

\* Lines 174-180: tx.wait() answered with the receipt.
TxWaitReturn(p, receiptStatus) ==
    /\ p \in DOMAIN txPc
    /\ txPc[p] = "wait"
    /\ txPc' = [txPc EXCEPT ![p] = "done"]
    /\ results' = [results EXCEPT ![p].status =
                     IF receiptStatus = 1 THEN "Success" ELSE "Failed"]
    /\ UNCHANGED << recipientAddresses, sendOpts, nonce, sendIndex, promises,
                    sent, sendPc, monitorVars >>

\* Lines 162-164: estimateGas answered; the entry stays Simulated.
EstimateGasReturn(p) ==
    /\ p \in DOMAIN txPc
    /\ txPc[p] = "estimateGas"
    /\ txPc' = [txPc EXCEPT ![p] = "done"]
    /\ UNCHANGED << recipientAddresses, sendOpts, nonce, sendIndex, results,
                    promises, sent, sendPc, monitorVars >>

\* Lines 181-185: the awaited call of processTx is rejected; the entry is
\* marked Failed and processTx resolves.
ProcessTxCatch(p) ==
    /\ p \in DOMAIN txPc
    /\ txPc[p] \in {"sendTransaction", "wait", "estimateGas"}
    /\ txPc' = [txPc EXCEPT ![p] = "done"]
    /\ results' = [results EXCEPT ![p].status = "Failed"]
    /\ UNCHANGED << recipientAddresses, sendOpts, nonce, sendIndex, promises,
                    sent, sendPc, monitorVars >>

\* Lines 194-195: Promise.all of the batch resolved; the queue is emptied.
BatchResolve ==
    /\ sendPc = "awaitBatch"
    /\ \A p \in promises : txPc[p] = "done"
    /\ promises' = {}
    /\ sendIndex' = sendIndex + 1
    /\ sendPc' = "loop"
    /\ UNCHANGED << recipientAddresses, sendOpts, nonce, results, txPc, sent,
                    monitorVars >>

\* Line 199: the one awaited processTx resolved.
TxResolve ==
    /\ sendPc = "awaitTx"
    /\ txPc[Len(results)] = "done"
    /\ sendIndex' = sendIndex + 1
    /\ sendPc' = "loop"
    /\ UNCHANGED << recipientAddresses, sendOpts, nonce, results, promises,
                    txPc, sent, monitorVars >>

\* Lines 203-206: the loop is over; promises still queued are awaited.
LoopEnd ==
    /\ sendPc = "loop"
    /\ sendIndex = Len(recipientAddresses)
    /\ sendPc' = IF promises # {} THEN "awaitAll" ELSE "returned"
    /\ UNCHANGED << recipientAddresses, sendOpts, nonce, sendIndex, results,
                    promises, txPc, sent, monitorVars >>

\* Lines 205-229: the last Promise.all resolved; the results are returned.
AllResolve ==
    /\ sendPc = "awaitAll"
    /\ \A p \in promises : txPc[p] = "done"
    /\ sendPc' = "returned"
    /\ UNCHANGED << recipientAddresses, sendOpts, nonce, sendIndex, results,
                    promises, txPc, sent, monitorVars >>

(* --------------------------- specifications ---------------------------- *)

Next ==
    \/ chainHead \in ShortHeads /\ NewBlock
    \/ \E c \in StartCalls :
          /\ Len(c[1]) = 0 \/ nextId \in Issuable
          /\ StartMonitoring(c[1], c[2], c[3], c[4])
    \/ \E id \in Ids, H \in 0..MaxHeight : StartHeightReturn(id, H)
    \/ \E id \in Ids : StartHeightThrow(id)
    \/ \E id \in Ids : StartNotifyReturn(id)
    \/ \E id \in Ids, k \in Slots : TickFire(id, k)
    \/ \E id \in Ids, k \in Slots, H \in 0..MaxHeight : GetBlockNumberReturn(id, k, H)
    \/ \E id \in Ids, k \in Slots : ProviderThrow(id, k)
    \/ \E id \in Ids, k \in Slots, b \in BOOLEAN : GetBlockReturn(id, k, b)
    \/ \E id \in Ids, k \in Slots : NotifyReturn(id, k, TRUE)
    \/ \E id \in Ids : LogStreamError(id)
    \/ \E id \in Ids : StopMonitoring(id)
    \/ \E id \in Ids : StopReturn(id)

Spec == Init /\ [][Next]_vars

\* The cycles of a session that are in flight.
InFlight(id) == { k \in Slots : ticks[id][k].pc # "idle" }

\* A cycle's awaited call settles: the provider answers or rejects, the
\* notification resolves.  Line 144 discards what sendTelegramNotification
\* resolved with, and the outcome is kept in the cycle's `undelivered` only,
\* which no action reads: a step with a failed delivery differs from the step
\* with a delivered one in that field alone.  The specifications whose
\* properties do not read the field follow the delivered step; SeqSpec
\* follows both.
TickStep(id, k) ==
    \/ \E H \in 0..MaxHeight : GetBlockNumberReturn(id, k, H)
    \/ ProviderThrow(id, k)
    \/ \E b \in BOOLEAN : GetBlockReturn(id, k, b)
    \/ NotifyReturn(id, k, TRUE)

\* Some call settles.
SomeTickStep == \E id \in Ids, k \in Slots : TickStep(id, k)

\* While a cycle awaits a call, a call settles eventually: the provider and
\* the notification endpoint answer or fail, they do not hang for ever.
\* The callers make only calls that succeed: a stop of a registered id, a
\* start of a session that keeps the transaction log, whose late writes are
\* the ones that can end the process.  Failed calls change nothing but
\* lastError.
FairStartCalls == { c \in StartCalls : c[1] = << "0xAA" >> /\ c[3] }

FairNext ==
    \/ chainHead \in ShortHeads /\ NewBlock
    \/ \E c \in FairStartCalls :
          /\ nextId \in Issuable
          /\ StartMonitoring(c[1], c[2], c[3], c[4])
    \/ \E id \in Ids, H \in 0..MaxHeight : StartHeightReturn(id, H)
    \/ \E id \in Ids : StartNotifyReturn(id)
    \/ \E id \in Ids, k \in Slots : TickFire(id, k)
    \/ SomeTickStep
    \/ \E id \in activeSessions : StopMonitoring(id)
    \/ \E id \in Ids : StopReturn(id)

FairSpec == Init /\ [][FairNext]_vars /\ WF_vars(SomeTickStep)

\* Two sessions side by side.  Each call is one that succeeds or fails at
\* the provider, each timer is followed through its first firing and each
\* session through one stop call; overlapping cycles and racing stops of one
\* session are what Spec explores.
MultiStartCalls ==
    { c \in StartCalls : c[1] # << >> /\ Normalize(c[1]) # {} /\ c[2] = 0 }

MultiNext ==
    \/ chainHead \in ShortHeads /\ NewBlock
    \/ \E c \in MultiStartCalls : StartMonitoring(c[1], c[2], c[3], c[4])
    \/ \E id \in Ids, H \in 0..MaxHeight : StartHeightReturn(id, H)
    \/ \E id \in Ids : StartHeightThrow(id)
    \/ \E id \in Ids : StartNotifyReturn(id)
    \/ \E id \in Ids, k \in Slots : fired[id] = 0 /\ TickFire(id, k)
    \/ SomeTickStep
    \/ \E id \in Ids : LogStreamError(id)
    \/ \E id \in activeSessions : stops[id] = 0 /\ StopMonitoring(id)
    \/ \E id \in Ids : StopReturn(id)

MultiSpec == Init /\ [][MultiNext]_vars

\* One session on the whole chain, its cycles one after the other: the timer
\* fires again only when the cycle before has ended, and nobody stops it.
\* Notifications are delivered or not.
SeqNext ==
    \/ NewBlock
    \/ \E c \in MultiStartCalls :
          /\ nextId \in Issuable
          /\ StartMonitoring(c[1], c[2], c[3], c[4])
    \/ \E id \in Ids, H \in 0..MaxHeight : StartHeightReturn(id, H)
    \/ \E id \in Ids : StartNotifyReturn(id)
    \/ \E id \in Ids, k \in Slots : InFlight(id) = {} /\ TickFire(id, k)
    \/ SomeTickStep
    \/ \E id \in Ids, k \in Slots : NotifyReturn(id, k, FALSE)

SeqSpec == Init /\ [][SeqNext]_vars

\* The longest recipient list of a call.
MaxRecipients == 3

\* The recipients: two addresses and a string that is none.
Recipients == {"0xAA", "0xBB", "not-an-address"}

\* The lists a caller may pass, the empty one included.
RecipientLists == UNION { [1..n -> Recipients] : n \in 0..MaxRecipients }

\* options.concurrentTx as given (0: not given).
ConcurrentTxGiven == {0, 2, 3}

\* options.nonce as given (0: not given).
NonceGiven == {0, 5}

\* The counts wallet.getTransactionCount() may answer with.
TransactionCounts == {0, 2}

SendNext ==
    \/ \E recipients \in RecipientLists, n \in ConcurrentTxGiven,
          dry \in BOOLEAN, optNonce \in NonceGiven :
             SendMultipleTransactions(recipients, n, dry, optNonce)
    \/ \E count \in TransactionCounts : PreambleReturn(count)
    \/ PreambleThrow
    \/ LoopInvalid
    \/ LoopStart
    \/ \E p \in 1..MaxRecipients : SendTransactionReturn(p)
    \/ \E p \in 1..MaxRecipients, receiptStatus \in {0, 1} :
          TxWaitReturn(p, receiptStatus)
    \/ \E p \in 1..MaxRecipients : EstimateGasReturn(p)
    \/ \E p \in 1..MaxRecipients : ProcessTxCatch(p)
    \/ BatchResolve
    \/ TxResolve
    \/ LoopEnd
    \/ AllResolve

\* One call of sendMultipleTransactions, from the call to its return.
SendSpec == Init /\ [][SendNext]_vars

(* ------------------------------ properties ----------------------------- *)

Positions(id) == DOMAIN emitted[id]

\* C1: at most one polling cycle of a session is in flight at any time.
C1_OneCycleAtATime == \A id \in Ids : Cardinality(InFlight(id)) <= 1

\* C2: lastProcessedBlock of a session never decreases.
C2_HeightNeverDecreases ==
    [][\A id \in Ids : lastProcessedBlock'[id] >= lastProcessedBlock[id]]_vars

\* C3: while the dedup window has not been reset, no hash is fanned out
\* (notified, logged) twice by a session.
C3_ReportedAtMostOnce ==
    \A id \in Ids :
       ~windowReset[id] =>
          \A a \in Positions(id), b \in Positions(id) :
             a # b => emitted[id][a].hash # emitted[id][b].hash

\* A reported hash came up again (re-reported or re-scanned) and was skipped,
\* with the window never reset.
C3_Witness ==
    \E id \in Ids :
       /\ ~windowReset[id]
       /\ \E a \in Positions(id) : emitted[id][a].hash \in suppressed[id]

\* C4: every unseen transaction of a fetched block of an active session whose
\* `to` is watched and whose amount reaches minValue is fanned out exactly
\* once: one notification attempt, and one audit record when the session
\* saves transactions.
C4_OwedFanoutOnce ==
    \A id \in Ids :
       LET done == { a \in Positions(id) : emitted[id][a].owed /\ emitted[id][a].active }
       IN  /\ Cardinality(done) = due[id]
           /\ opts[id].saveTransactions => \A a \in done : emitted[id][a].logged

\* Two owed transactions, one of them of exactly minValue, were fanned out
\* and logged / a session that does not save fanned one out.
C4_Witness ==
    \E id \in Ids :
       /\ due[id] >= 1
       /\ opts[id].minValue > 0
       /\ \E a \in Positions(id) :
             emitted[id][a].owed /\ emitted[id][a].value = opts[id].minValue

\* C5: a cycle that aborts on a provider error partway through its range
\* leaves lastProcessedBlock at the value it had when the range was taken.
C5_AbortKeepsHeight ==
    [][\A id \in Ids : \A k \in Slots :
          (ticks[id][k].pc = "getBlock" /\ ProviderThrow(id, k))
             => lastProcessedBlock'[id] = ticks[id][k].base]_vars

\* C6: every height above the session's first height and up to
\* lastProcessedBlock has been fetched and its transactions classified.
C6_HeightCoversOnlyScanned ==
    \A id \in Ids :
       \A h \in (initBlock[id] + 1)..lastProcessedBlock[id] : h \in scanned[id]

\* The height advanced by two blocks while an overlapping, older cycle of the
\* session is still in flight.
C6_Witness ==
    \E id \in Ids :
       /\ lastProcessedBlock[id] >= initBlock[id] + 2
       /\ \E k \in InFlight(id) :
             ticks[id][k].pc # "getBlockNumber"
             /\ ticks[id][k].base < lastProcessedBlock[id]

\* C7: stopMonitoring on an id that is not registered throws 'not found'
\* and changes nothing: not the registry, no session's timer or state, no sink.
C7_StopUnknownChangesNothing ==
    [][\A id \in Ids :
          (id \notin activeSessions /\ StopMonitoring(id))
             => /\ lastError' = "Session not found"
                /\ UNCHANGED << senderVars, chainHead, crashed, sessionVars >>]_vars

\* A stop was refused while another session is registered and polling / for
\* a session that had been stopped before.
C7_Witness ==
    /\ lastError = "Session not found"
    /\ \/ \E id \in activeSessions : pollInterval[id] = "active" /\ InFlight(id) # {}
       \/ \E id \in Ids : stopReturned[id] >= 1

\* C8: at most one stopMonitoring call on an id returns success.
C8_AtMostOneStopSucceeds == \A id \in Ids : stopReturned[id] <= 1

\* C9: once stopMonitoring(id) has returned, the session fans out nothing.
C9_NothingAfterStop ==
    [][\A id \in Ids : stopReturned[id] >= 1 => emitted'[id] = emitted[id]]_vars

C11_RegisteredWatchSetNonEmpty ==
    \A id \in activeSessions : watchAddresses[id] # {}

\* C12: a start whose initial height fetch fails leaves nothing behind: the
\* session is not registered, no timer is scheduled, no log stream is opened
\* and no start notification is sent.
C12_FailedStartLeavesNothing ==
    \A id \in Ids :
        startPc[id] = "failed" =>
            /\ id \notin activeSessions
            /\ pollInterval[id] = "unset"
            /\ fired[id] = 0
            /\ InFlight(id) = {}
            /\ logStream[id] = "null"
            /\ startNotes[id] = 0

\* A start that asked for the transaction log was rejected by the provider.
C12_Witness ==
    \E id \in Ids : startPc[id] = "failed" /\ opts[id].saveTransactions

\* C13: the ids startMonitoring returns are pairwise different, those of
\* stopped sessions included, and the id of a stopped session never comes
\* back into the registry.
C13_IdsNeverReused ==
    [][/\ \A a, b \in DOMAIN returned' : a # b => returned'[a] # returned'[b]
       /\ \A id \in Ids :
             (stopReturned[id] > 0 /\ id \notin activeSessions) =>
                 id \notin activeSessions']_vars

\* A second start returned after the first session was stopped and deleted.
C13_Witness ==
    /\ Len(returned) = 2
    /\ stopReturned[returned[1]] > 0
    /\ returned[1] \notin activeSessions
    /\ returned[2] \in activeSessions

\* C14: every fanout is for a transaction that satisfies the session's
\* filter: its recipient is watched, or its sender is watched and outgoing
\* matches are enabled; and its exact amount is at least minValue.
C14_FanoutsSatisfyFilter ==
    \A id \in Ids : \A a \in Positions(id) :
        LET r == emitted[id][a] IN
        /\ \/ isIncoming(r, watchAddresses[id])
           \/ isOutgoing(r, watchAddresses[id]) /\ opts[id].includeOutgoing
        /\ r.wei >= opts[id].minValue

\* What a session keeps for itself: height pointer, dedup window, watch set,
\* options and timer.
SessionState(id) ==
    << lastProcessedBlock[id], processedTxs[id], watchAddresses[id], opts[id],
       pollInterval[id] >>

\* A step of startMonitoring, of a polling cycle or of stopMonitoring that
\* belongs to session id.
SessionStep(id) ==
    \/ /\ randomUUID(nextId) = id
       /\ \E c \in StartCalls :
             Len(c[1]) > 0 /\ StartMonitoring(c[1], c[2], c[3], c[4])
    \/ \E H \in 0..MaxHeight : StartHeightReturn(id, H)
    \/ StartHeightThrow(id)
    \/ StartNotifyReturn(id)
    \/ \E k \in Slots : TickFire(id, k) \/ TickStep(id, k)
    \/ StopMonitoring(id)
    \/ StopReturn(id)

Live(id) ==
    ~crashed /\ id \in activeSessions /\ pollInterval[id] = "active"

\* A call made inside a polling cycle of the session fails: the provider
\* rejects, the notification is not delivered, the log stream reports an
\* error.
TickError(id) ==
    \/ \E k \in Slots : ProviderThrow(id, k)
    \/ \E k \in Slots, ok \in BOOLEAN : NotifyReturn(id, k, ok)
    \/ LogStreamError(id)

\* C16: an error inside a polling cycle neither cancels the session's timer
\* nor removes the session: after it the session is still registered with a
\* timer that fires.
C16_TickErrorsKeepTimer ==
    [][\A id \in Ids : (Live(id) /\ TickError(id)) => Live(id)']_vars

\* C17: stopMonitoring never releases the log stream in a way that harms a
\* cycle still finishing: either no cycle is left to write when the stream is
\* ended, or its late write is caught.  Either way the process does not die
\* of a write to an ended stream; the only death is that of a stream error.
C17_ReleaseHarmsNoCycle ==
    crashed => \E id \in Ids : logStream[id] = "errored"

\* C18: of two matches a session reports in the same tick, over the tick's
\* range, the one in the lower block, or earlier in the same block, is
\* emitted first.
C18_EmittedInBlockOrder ==
    \A id \in Ids, k \in Slots :
        LET log == ticks[id][k].log IN
        \A a, b \in DOMAIN log :
            a < b => \/ log[a][1] < log[b][1]
                     \/ log[a][1] = log[b][1] /\ log[a][2] < log[b][2]

\* A cycle has reported a match in each of two blocks while another cycle of
\* the session, in flight at the same time, was reporting too.
C18_Witness ==
    \E id \in Ids : \E k, m \in Slots :
        LET log == ticks[id][k].log IN
        /\ k # m
        /\ ticks[id][m].log # << >>
        /\ Len(log) = 2
        /\ log[1][1] < log[2][1]

\* C19: every start that succeeded made exactly one start notification
\* attempt, and every session that was stopped got exactly one stop
\* notification attempt, however the stop calls interleave.
C19_OneStartOneStopNote ==
    \A id \in Ids :
        /\ startPc[id] = "done" => startNotes[id] = 1
        /\ stopReturned[id] > 0 => stopNotes[id] = 1

\* A cycle of session id ends at this step with no other cycle in flight.
LastTickEnds(id) ==
    /\ Cardinality(InFlight(id)) = 1
    /\ \A k \in Slots : ticks'[id][k].pc = "idle"

\* C20: a dedup window over capacity at the end of a tick is reset before
\* the next tick begins, whether the tick completed or aborted.
C20_WindowResetAtTickEnd ==
    [][\A id \in Ids :
          LastTickEnds(id) => Cardinality(processedTxs'[id]) <= DedupCap]_vars

\* C21: the dedup window holds only hashes of transactions that were acted
\* upon: every hash in it is that of a transaction the session fanned out.
C21_WindowHoldsOnlyReported ==
    \A id \in Ids :
        ~crashed =>
            \A h \in processedTxs[id] :
                \E a \in Positions(id) : emitted[id][a].hash = h

\* The cycle in slot k of session id issues the fetch of height h at this
\* step.
Fetches(id, k, h) ==
    /\ ticks'[id][k].pc = "getBlock"
    /\ ticks'[id][k].i = h
    /\ ticks[id][k].pc # "getBlock" \/ ticks[id][k].i # h

\* C22: a cycle whose fetch of a height is answered with no block goes on to
\* the next height of its range, or, at the end of the range, completes and
\* stores the range's upper end; and no cycle of the session fetches again a
\* height that a completed cycle skipped.
C22_GapSkippedForGood ==
    [][\A id \in Ids, k \in Slots :
          /\ GetBlockReturn(id, k, FALSE) =>
                IF ticks[id][k].i < ticks[id][k].currentBlock
                THEN Fetches(id, k, ticks[id][k].i + 1)
                ELSE /\ ticks'[id][k].pc = "idle"
                     /\ lastProcessedBlock'[id] = ticks[id][k].currentBlock
          /\ \A h \in gaps[id] : ~Fetches(id, k, h)]_vars

\* C23: a session fetches no block at or below the height read at its
\* creation, and reports no transaction of such a block; a tick that reads a
\* height not above lastProcessedBlock fetches nothing, emits nothing and
\* leaves lastProcessedBlock and the dedup window as they were.
C23_NothingAtOrBelowStart ==
    [][\A id \in Ids :
          /\ \A k \in Slots : \A h \in 0..MaxHeight :
                Fetches(id, k, h) => h > initBlock[id]
          /\ \A a \in DOMAIN emitted'[id] :
                emitted'[id][a].blockNumber > initBlock[id]
          /\ \A k \in Slots : \A H \in 0..MaxHeight :
                (GetBlockNumberReturn(id, k, H) /\ H <= lastProcessedBlock[id]) =>
                    /\ ticks'[id][k].pc = "idle"
                    /\ emitted'[id] = emitted[id]
                    /\ lastProcessedBlock'[id] = lastProcessedBlock[id]
                    /\ processedTxs'[id] = processedTxs[id]]_vars

\* A session created at height 1 has had a tick that read height 1 and
\* returned, and a later cycle that fetched block 2 and reported from it.
C23_Witness ==
    \E id \in Ids :
        /\ initBlock[id] = 1
        /\ fired[id] = 2
        /\ scanned[id] = {2}
        /\ emitted[id] # << >>


\* The watch-set membership of an address of a reported record.
Watched(id, addr) == addr # NoAddr /\ toLowerCase(addr) \in watchAddresses[id]

\* C24: the direction label of every reported transaction follows from the
\* watch-set membership of its two ends alone: both watched gives the internal
\* label, only `to` watched gives Incoming, only `from` watched gives Outgoing
\* and is reported only with includeOutgoing set; whatever the option is.
C24_LabelFollowsMembership ==
    \A id \in Ids : \A a \in DOMAIN emitted[id] :
        LET r == emitted[id][a]
            toIn == Watched(id, r.to)
            fromIn == Watched(id, r.from)
        IN  /\ toIn \/ fromIn
            /\ (toIn /\ fromIn) => r.type = "Internal Tx"
            /\ (toIn /\ ~fromIn) => r.type = "Incoming"
            /\ (fromIn /\ ~toIn) =>
                   (r.type = "Outgoing" /\ opts[id].includeOutgoing)

\* A session that does not include outgoing transactions has reported an
\* incoming transaction and one between two watched addresses.
C24_Witness ==
    \E id \in Ids :
        /\ ~opts[id].includeOutgoing
        /\ \E a \in DOMAIN emitted[id] : emitted[id][a].type = "Incoming"
        /\ \E a \in DOMAIN emitted[id] :
               /\ Watched(id, emitted[id][a].to)
               /\ Watched(id, emitted[id][a].from)


\* The place of a cycle in its range: the height and the transaction index.
Place(t) == << t.i, t.j >>

\* Place a comes before place b in the order of the two loops.
Before(a, b) == a[1] < b[1] \/ (a[1] = b[1] /\ a[2] < b[2])

\* C25: a notification that was not delivered is attempted once and does not
\* end the cycle.  At the step where the failed call returns, the cycle goes
\* on from the next transaction: it reports nothing at or before the place of
\* the failed notification again, and it is either at a later transaction, or
\* at a later height, or finished with lastProcessedBlock set to the height
\* it read.  A cycle that had a failed delivery and ends without a provider
\* error ends with lastProcessedBlock set to the height it read.
C25_FailedDeliveryGoesOn ==
    [][\A id \in Ids : \A k \in Slots :
          LET t == ticks[id][k]
              u == ticks'[id][k]
          IN  /\ NotifyReturn(id, k, FALSE) =>
                    /\ \A a \in DOMAIN emitted'[id] :
                          a > Len(emitted[id]) =>
                              Before(Place(t), << emitted'[id][a].blockNumber,
                                                  emitted'[id][a].index >>)
                    /\ \/ u.pc = "notify" /\ Before(Place(t), Place(u))
                       \/ u.pc = "getBlock" /\ u.i > t.i
                       \/ /\ u.pc = "idle"
                          /\ lastProcessedBlock'[id] = t.currentBlock
                    /\ u.pc # "idle" => u.undelivered
              /\ (t.undelivered /\ u.pc = "idle" /\ ~ProviderThrow(id, k)) =>
                    lastProcessedBlock'[id] = t.currentBlock]_vars

\* A cycle over two heights had a delivery fail at the first height and is
\* now awaiting the notification of a transaction of the second height.
C25_Witness ==
    \E id \in Ids : \E k \in Slots :
        /\ ticks[id][k].undelivered
        /\ ticks[id][k].pc = "notify"
        /\ Len(ticks[id][k].log) = 2
        /\ ticks[id][k].log[1][1] < ticks[id][k].log[2][1]


\* C26: every session whose polling timer is still scheduled is in the
\* registry, so a stop can find every session that still polls.
C26_ScheduledTimerIsRegistered ==
    \A id \in Ids : pollInterval[id] = "active" => id \in activeSessions

\* A session's timer is scheduled and has fired, a cycle of it is under way
\* and the session is registered; a stop of it was called before, when it was
\* not yet started, and failed.
C26_Witness ==
    \E id \in Ids :
        /\ pollInterval[id] = "active"
        /\ id \in activeSessions
        /\ InFlight(id) # {}
        /\ lastError = "Session not found"


\* C27: the nonces of the transactions handed to wallet.sendTransaction are
\* consecutive from the starting nonce, without gap or repeat, whatever the
\* recipient list, invalid entries included.
C27_NoncesConsecutive ==
    sendPc \notin {"idle", "preamble", "threw"} =>
        \A a \in DOMAIN sent : sent[a] = nonce + (a - 1)

\* C28: with concurrentTx above 1 no more than concurrentTx processTx calls
\* are unsettled at a time, and at the return every started one has settled
\* and results holds one entry per recipient, in the order of the input, none
\* of them Pending.
C28_BatchesBoundedAndComplete ==
    sendOpts.concurrentTx > 1 =>
        /\ Cardinality(InFlightTxs) <= sendOpts.concurrentTx
        /\ sendPc = "returned" =>
              /\ InFlightTxs = {}
              /\ Len(results) = Len(recipientAddresses)
              /\ \A p \in DOMAIN results :
                    /\ results[p].recipient = recipientAddresses[p]
                    /\ results[p].status # "Pending"

\* A call with concurrentTx 2 over three recipients, the last of them not an
\* address, has returned after a full batch of two sent transactions.
C28_Witness ==
    /\ sendPc = "returned"
    /\ sendOpts.concurrentTx = 2
    /\ ~sendOpts.dryRun
    /\ Len(recipientAddresses) = 3
    /\ ~isAddress(recipientAddresses[3])
    /\ Len(sent) = 2
    /\ \E p \in DOMAIN results : results[p].status = "Success"

====
